---- MODULE Spec2Model ----
(***************************************************************************)
(* feedzai-client: the CSV-to-event validation pipeline of src/main.rs.    *)
(*                                                                         *)
(* An Event is a serde_json::Value.  A Value is modelled as a record       *)
(* [t, v]: t is the variant (Null, Bool, Int, Float, String, Array,        *)
(* Object), v its payload.  A string is a sequence of one-character        *)
(* strings, so that the parsers below read it character by character as    *)
(* the Rust parsers do.  An object is a function from field names to       *)
(* Values.                                                                 *)
(***************************************************************************)
EXTENDS Integers, Sequences, FiniteSets, TLC

VARIABLES
    \* ---- the run of main ----
    endpoint,   \* args.endpoint
    headers,    \* reader.headers(): the header names
    records,    \* what reader.records() will yield, in file order
    pos,        \* number of records the iterator has yielded so far
    events,     \* the Vec collected so far
    pc,         \* "start", "loop", "done"
    outcome,    \* "running", "ok", "err", "panic"
    reported,   \* the errors main returned (Err) to its caller
    \* ---- one application of the coercion operators to one event ----
    input,      \* the event the operators were applied to
    keysA,      \* the key list of the first operator
    keysB,      \* the key list of the second operator
    opA,        \* the first operator
    opB,        \* the second operator
    phase,      \* "idle", "ready", "applied"
    res,        \* the result of the application
    res2        \* the result of the second application of the comparison

vars == <<endpoint, headers, records, pos, events, pc, outcome, reported,
          input, keysA, keysB, opA, opB, phase, res, res2>>

runVars == <<endpoint, headers, records, pos, events, pc, outcome, reported>>
opVars == <<input, keysA, keysB, opA, opB, phase, res, res2>>

(***************************************************************************)
(* serde_json::Value                                                       *)
(***************************************************************************)
NullV == [t |-> "Null"]
BoolV(b) == [t |-> "Bool", b |-> b]
IntV(n) == [t |-> "Int", n |-> n]
FloatV(m, e) == [t |-> "Float", f |-> <<m, e>>]
StringV(s) == [t |-> "String", s |-> s]
ArrayV(a) == [t |-> "Array", a |-> a]
ObjectV(o) == [t |-> "Object", o |-> o]

is_object(val) == val.t = "Object"
is_str(val) == val.t = "String"

EmptyObject == [k \in {} |-> NullV]

(***************************************************************************)
(* Results.  A parse yields a Value or a cause; an operator yields an      *)
(* event, an eyre::Report (the cause and the contexts wrapped around it),  *)
(* or panics.                                                              *)
(***************************************************************************)
ParseOk(val) == [ok |-> TRUE, v |-> val, cause |-> "none"]
ParseErr(c) == [ok |-> FALSE, v |-> NullV, cause |-> c]

NoReport == [cause |-> "none", context |-> <<>>]
Report(c) == [cause |-> c, context |-> <<>>]
Ok(ev) == [st |-> "Ok", ev |-> ev, err |-> NoReport]
Err(report) == [st |-> "Err", ev |-> NullV, err |-> report]
Panic == [st |-> "Panic", ev |-> NullV, err |-> NoReport]

\* eyre's .context(msg) on a Result: wraps the report of an Err, keeps an Ok
\* (a panic has unwound before it is reached)
context(r, msg) ==
    IF r.st = "Err"
    THEN Err([cause |-> r.err.cause, context |-> <<msg>> \o r.err.context])
    ELSE r

Range(f) == {f[i] : i \in DOMAIN f}

(***************************************************************************)
(* Characters                                                              *)
(***************************************************************************)
Digits == {"0", "1", "2", "3", "4", "5", "6", "7", "8", "9"}

IsDigit(c) == c \in Digits

DigitVal(c) ==
    CASE c = "0" -> 0 [] c = "1" -> 1 [] c = "2" -> 2 [] c = "3" -> 3
      [] c = "4" -> 4 [] c = "5" -> 5 [] c = "6" -> 6 [] c = "7" -> 7
      [] c = "8" -> 8 [] c = "9" -> 9

\* whether s has the characters of word at position i
HasAt(s, i, word) ==
    /\ i + Len(word) - 1 <= Len(s)
    /\ SubSeq(s, i, i + Len(word) - 1) = word

\* the first position >= i of s that holds no digit (Len(s) + 1 if none)
RECURSIVE DigitsEnd(_, _)
DigitsEnd(s, i) ==
    IF i <= Len(s) /\ IsDigit(s[i]) THEN DigitsEnd(s, i + 1) ELSE i

\* the number a sequence of digits denotes, read left to right
RECURSIVE DigitsValue(_, _)
DigitsValue(ds, acc) ==
    IF ds = <<>> THEN acc
    ELSE DigitsValue(Tail(ds), acc * 10 + DigitVal(Head(ds)))

(***************************************************************************)
(* str::parse::<i64>: an optional sign, then one or more digits.  The      *)
(* strings of the model have fewer than 10 characters, so the checked      *)
(* multiplication and addition never overflow 64 bits.                     *)
(***************************************************************************)
RECURSIVE i64_digits(_, _, _)
i64_digits(digits, is_positive, result) ==
    IF digits = <<>> THEN ParseOk(IntV(result))
    ELSE IF ~IsDigit(Head(digits)) THEN ParseErr("ParseIntError")
    ELSE i64_digits(Tail(digits), is_positive,
                    IF is_positive
                    THEN result * 10 + DigitVal(Head(digits))
                    ELSE result * 10 - DigitVal(Head(digits)))

parse_i64(src) ==
    IF src = <<>> THEN ParseErr("ParseIntError")
    ELSE IF src \in {<<"+">>, <<"-">>} THEN ParseErr("ParseIntError")
    ELSE IF Head(src) = "+" THEN i64_digits(Tail(src), TRUE, 0)
    ELSE IF Head(src) = "-" THEN i64_digits(Tail(src), FALSE, 0)
    ELSE i64_digits(src, TRUE, 0)

(***************************************************************************)
(* str::parse::<bool>: exactly "true" or "false".                          *)
(***************************************************************************)
parse_bool(src) ==
    IF src = <<"t", "r", "u", "e">> THEN ParseOk(BoolV(TRUE))
    ELSE IF src = <<"f", "a", "l", "s", "e">> THEN ParseOk(BoolV(FALSE))
    ELSE ParseErr("ParseBoolError")

(***************************************************************************)
(* With(v, LAMBDA x : e) is e with x bound to the value of v: the way a    *)
(* Rust `let x = v;` computes v once before e uses it.                     *)
(***************************************************************************)
With(v, e(_)) == CHOOSE y \in {e(x) : x \in {v}} : TRUE

(***************************************************************************)
(* str::parse::<f64> followed by Value::from(f64).  The grammar is         *)
(*   Sign? ( 'inf' | 'infinity' | 'nan' | Number ),                        *)
(*   Number ::= ( Digit+ | Digit+ '.' Digit* | Digit* '.' Digit+ ) Exp?,   *)
(*   Exp ::= 'e' Sign? Digit+,  letters in either case.                    *)
(* A finite number is kept as the decimal m * 10^e with m not divisible by *)
(* 10 (the strings of the model are short enough for distinct decimals to  *)
(* be distinct f64 values, and carry exponents of at most two digits);     *)
(* Value::from maps a non-finite f64 to Null.                              *)
(***************************************************************************)
Lower(c) ==
    CASE c = "I" -> "i" [] c = "N" -> "n" [] c = "F" -> "f" [] c = "A" -> "a"
      [] c = "T" -> "t" [] c = "Y" -> "y" [] c = "E" -> "e" [] OTHER -> c

LowerStr(s) == [i \in 1..Len(s) |-> Lower(s[i])]

RECURSIVE Normalize(_, _)
Normalize(m, e) ==
    IF m = 0 THEN FloatV(0, 0)
    ELSE IF m % 10 = 0 THEN Normalize(m \div 10, e + 1)
    ELSE FloatV(m, e)

\* the f64 of sign, significant digits and decimal exponent
Decimal(neg, ds, e) ==
    With(DigitsValue(ds, 0), LAMBDA m : Normalize(IF neg THEN 0 - m ELSE m, e))

\* the exponent part of s that starts at q (s[q] is 'e'): where its digits
\* start and end, and its value
Exponent(s, q) ==
    With(q + 1 <= Len(s) /\ s[q + 1] \in {"+", "-"}, LAMBDA signed :
    With(IF signed THEN q + 2 ELSE q + 1, LAMBDA eStart :
    With(DigitsEnd(s, eStart), LAMBDA eEnd :
    With(DigitsValue(SubSeq(s, eStart, eEnd - 1), 0), LAMBDA mag :
        [start |-> eStart, end |-> eEnd,
         val |-> IF signed /\ s[q + 1] = "-" THEN 0 - mag ELSE mag]))))

\* the digits of s from p on, an optional '.' and more digits, an optional
\* exponent: the digits before and after the point, whether there is a
\* point, the exponent read (val, and end = start if it has no digit), and
\* the position after the number
ScanNumber(s, p) ==
    With(DigitsEnd(s, p), LAMBDA iEnd :
    With(iEnd <= Len(s) /\ s[iEnd] = ".", LAMBDA hasDot :
    With(IF hasDot THEN iEnd + 1 ELSE iEnd, LAMBDA fStart :
    With(DigitsEnd(s, fStart), LAMBDA fEnd :
    With(fEnd <= Len(s) /\ Lower(s[fEnd]) = "e", LAMBDA hasExp :
    With(Exponent(s, fEnd), LAMBDA ex :
        [intDs |-> SubSeq(s, p, iEnd - 1),
         fracDs |-> SubSeq(s, fStart, fEnd - 1),
         hasDot |-> hasDot,
         hasExp |-> hasExp,
         noExpDigit |-> hasExp /\ ex.end = ex.start,
         exp |-> IF hasExp THEN ex.val ELSE 0,
         next |-> IF hasExp THEN ex.end ELSE fEnd]))))))

f64_number(neg, body) ==
    With(ScanNumber(body, 1), LAMBDA n :
        IF n.intDs = <<>> /\ n.fracDs = <<>> THEN ParseErr("ParseFloatError")
        ELSE IF n.noExpDigit THEN ParseErr("ParseFloatError")
        ELSE IF n.next <= Len(body) THEN ParseErr("ParseFloatError")
        ELSE ParseOk(Decimal(neg, n.intDs \o n.fracDs, n.exp - Len(n.fracDs))))

parse_f64(src) ==
    With(src # <<>> /\ Head(src) \in {"+", "-"}, LAMBDA signed :
    With(IF signed THEN Tail(src) ELSE src, LAMBDA body :
        IF LowerStr(body) \in {<<"i", "n", "f">>, <<"n", "a", "n">>,
                               <<"i", "n", "f", "i", "n", "i", "t", "y">>}
        THEN ParseOk(NullV)
        ELSE f64_number(signed /\ Head(src) = "-", body)))

(***************************************************************************)
(* serde_json::from_str::<Vec<Value>>: optional whitespace, '[', the       *)
(* elements separated by ',', ']', optional whitespace, end of input.  An  *)
(* element is null, true, false, a number, a string, an array or an        *)
(* object.  The strings of the model hold no backslash, so a string        *)
(* literal has no escape.                                                  *)
(***************************************************************************)
Whitespace == {" ", "\n", "\t", "\r"}

RECURSIVE parse_whitespace(_, _)
parse_whitespace(s, i) ==
    IF i <= Len(s) /\ s[i] \in Whitespace THEN parse_whitespace(s, i + 1) ELSE i

JOk(val, next) == [ok |-> TRUE, v |-> val, next |-> next]
JErr == [ok |-> FALSE, v |-> NullV, next |-> 0]

\* parse_ident: the literal word at i
parse_ident(s, i, word, val) ==
    IF HasAt(s, i, word) THEN JOk(val, i + Len(word)) ELSE JErr

\* parse_integer: after a leading 0 no digit may follow; then parse_number,
\* parse_decimal (a '.' needs a digit after it) and parse_exponent.  An
\* integer is a Number of the integer kind, but "-0" is the float -0.0
json_digits(s, p, neg) ==
    With(ScanNumber(s, IF s[p] = "0" THEN p + 1 ELSE p), LAMBDA n :
    With(IF s[p] = "0" THEN <<"0">> \o n.intDs ELSE n.intDs, LAMBDA intDs :
        IF s[p] = "0" /\ Len(intDs) > 1 THEN JErr
        ELSE IF n.hasDot /\ n.fracDs = <<>> THEN JErr
        ELSE IF n.hasExp /\ n.noExpDigit THEN JErr
        ELSE IF n.hasDot \/ n.hasExp
        THEN JOk(Decimal(neg, intDs \o n.fracDs, n.exp - Len(n.fracDs)), n.next)
        ELSE With(DigitsValue(intDs, 0), LAMBDA significand :
            IF ~neg THEN JOk(IntV(significand), n.next)
            ELSE IF significand = 0 THEN JOk(FloatV(0, 0), n.next)
            ELSE JOk(IntV(0 - significand), n.next))))

json_number(s, i) ==
    With(IF s[i] = "-" THEN i + 1 ELSE i, LAMBDA p :
        IF p > Len(s) \/ ~IsDigit(s[p]) THEN JErr
        ELSE json_digits(s, p, s[i] = "-"))

\* the first position >= i of s that holds a '"' (Len(s) + 1 if none)
RECURSIVE QuoteAt(_, _)
QuoteAt(s, i) ==
    IF i <= Len(s) /\ s[i] # "\"" THEN QuoteAt(s, i + 1) ELSE i

\* parse_str: the string whose opening quote is at i; a control character
\* in it is an error
json_string(s, i) ==
    With(QuoteAt(s, i + 1), LAMBDA q :
        IF q > Len(s) THEN JErr
        ELSE IF \E k \in (i + 1)..(q - 1) : s[k] \in {"\n", "\t", "\r"} THEN JErr
        ELSE JOk(StringV(SubSeq(s, i + 1, q - 1)), q + 1))

\* Map::insert: the entry of key is set, or replaced
insert(obj, key, val) ==
    [k \in DOMAIN obj \cup {key} |-> IF k = key THEN val ELSE obj[k]]

RECURSIVE json_value(_, _)
RECURSIVE json_elements(_, _, _, _)
RECURSIVE json_members(_, _, _, _)

\* Value::deserialize: the value that starts at or after i
json_value(s, i) ==
    With(parse_whitespace(s, i), LAMBDA j :
        IF j > Len(s) THEN JErr
        ELSE IF s[j] = "n" THEN parse_ident(s, j, <<"n", "u", "l", "l">>, NullV)
        ELSE IF s[j] = "t"
        THEN parse_ident(s, j, <<"t", "r", "u", "e">>, BoolV(TRUE))
        ELSE IF s[j] = "f"
        THEN parse_ident(s, j, <<"f", "a", "l", "s", "e">>, BoolV(FALSE))
        ELSE IF s[j] = "-" \/ IsDigit(s[j]) THEN json_number(s, j)
        ELSE IF s[j] = "\"" THEN json_string(s, j)
        ELSE IF s[j] = "[" THEN json_elements(s, j + 1, <<>>, TRUE)
        ELSE IF s[j] = "{" THEN json_members(s, j + 1, EmptyObject, TRUE)
        ELSE JErr)

\* the value of the member whose key ends before c, after the members acc
json_member_value(s, c, key, acc) ==
    IF c > Len(s) \/ s[c] # ":" THEN JErr
    ELSE With(json_value(s, c + 1), LAMBDA r :
        IF ~r.ok THEN JErr
        ELSE json_members(s, r.next, insert(acc, key, r.v), FALSE))

\* the member whose key starts at k, after the members acc
json_member(s, k, acc) ==
    With(json_string(s, k), LAMBDA key :
        IF ~key.ok THEN JErr
        ELSE json_member_value(s, parse_whitespace(s, key.next), key.v.s, acc))

\* MapAccess::next_key_seed, next_value_seed and end_map: the members after
\* a '{', acc the ones read so far
json_members(s, i, acc, first) ==
    With(parse_whitespace(s, i), LAMBDA j :
        IF j > Len(s) THEN JErr
        ELSE IF s[j] = "}" THEN JOk(ObjectV(acc), j + 1)
        ELSE IF ~first /\ s[j] # "," THEN JErr
        ELSE With(IF first THEN j ELSE parse_whitespace(s, j + 1), LAMBDA k :
            IF k > Len(s) \/ s[k] # "\"" THEN JErr
            ELSE json_member(s, k, acc)))

\* the element at k, after the elements acc
json_element(s, k, acc) ==
    With(json_value(s, k), LAMBDA r :
        IF ~r.ok THEN JErr
        ELSE json_elements(s, r.next, Append(acc, r.v), FALSE))

\* SeqAccess::next_element_seed and end_seq: the elements after a '[',
\* acc the ones read so far
json_elements(s, i, acc, first) ==
    With(parse_whitespace(s, i), LAMBDA j :
        IF j > Len(s) THEN JErr
        ELSE IF s[j] = "]" THEN JOk(ArrayV(acc), j + 1)
        ELSE IF ~first /\ s[j] # "," THEN JErr
        ELSE With(IF first THEN j ELSE parse_whitespace(s, j + 1), LAMBDA k :
            IF k > Len(s) \/ s[k] = "]" THEN JErr
            ELSE json_element(s, k, acc)))

from_str_vec(s) ==
    With(parse_whitespace(s, 1), LAMBDA j :
        IF j > Len(s) \/ s[j] # "[" THEN ParseErr("serde_json::Error")
        ELSE With(json_elements(s, j + 1, <<>>, TRUE), LAMBDA r :
            IF ~r.ok THEN ParseErr("serde_json::Error")
            ELSE IF parse_whitespace(s, r.next) <= Len(s)
            THEN ParseErr("serde_json::Error")
            ELSE ParseOk(r.v)))

(***************************************************************************)
(* impl EventValidation for Event                                          *)
(***************************************************************************)

\* |s| Ok(s.into())
into_string(s) == ParseOk(StringV(s))

\* the closures handed to convert, named after the operator that hands them
call(f, s) ==
    CASE f = "array" -> from_str_vec(s)
      [] f = "int" -> parse_i64(s)
      [] f = "float" -> parse_f64(s)
      [] f = "str" -> into_string(s)
      [] f = "bool" -> parse_bool(s)

\* convert: assert!(self.is_object()); if the key is present, its value is
\* unwrapped as a string (a panic if it is none) and replaced by f of it
convert(self, key, f) ==
    IF ~is_object(self) THEN Panic
    ELSE IF key \in DOMAIN self.o
    THEN IF ~is_str(self.o[key]) THEN Panic
         ELSE With(call(f, self.o[key].s), LAMBDA p :
              IF p.ok THEN Ok(ObjectV([self.o EXCEPT ![key] = p.v]))
              ELSE Err(Report(p.cause)))
    ELSE Ok(self)

\* format!("Field {key} is not an array")
NotAnArray(key) == [field |-> key, msg |-> "is not an array"]

\* obj.remove(key)
remove(obj, key) == [k \in DOMAIN obj \ {key} |-> obj[k]]

RECURSIVE drop_loop(_, _)
drop_loop(obj, keys) ==
    IF keys = <<>> THEN obj
    ELSE With(IF Head(keys) \in DOMAIN obj THEN remove(obj, Head(keys))
              ELSE obj,
              LAMBDA o : drop_loop(o, Tail(keys)))

\* obj.clear() in the place of obj.remove(key)
drop_fields_clearing(self, keys) ==
    IF ~is_object(self) THEN Panic
    ELSE IF Range(keys) \cap DOMAIN self.o # {} THEN Ok(ObjectV(EmptyObject))
    ELSE Ok(self)

\* a loop that returns after its first turn
drop_fields_first_key_only(self, keys) ==
    IF ~is_object(self) THEN Panic
    ELSE Ok(ObjectV(drop_loop(self.o, IF keys = <<>> THEN <<>>
                                      ELSE <<Head(keys)>>)))

drop_fields(self, keys) ==
    IF ~is_object(self) THEN Panic ELSE Ok(ObjectV(drop_loop(self.o, keys)))

\* the closure of str_fields in the place of the one of array_fields
RECURSIVE array_fields_as_str(_, _)
array_fields_as_str(self, keys) ==
    IF keys = <<>> THEN Ok(self)
    ELSE With(context(convert(self, Head(keys), "str"),
                      NotAnArray(Head(keys))),
              LAMBDA r : IF r.st # "Ok" THEN r
                         ELSE array_fields_as_str(r.ev, Tail(keys)))

RECURSIVE array_fields(_, _)
array_fields(self, keys) ==
    IF keys = <<>> THEN Ok(self)
    ELSE With(context(convert(self, Head(keys), "array"),
                      NotAnArray(Head(keys))),
              LAMBDA r : IF r.st # "Ok" THEN r
                         ELSE array_fields(r.ev, Tail(keys)))

\* the closure of float_fields in the place of the one of int_fields
RECURSIVE int_fields_as_float(_, _)
int_fields_as_float(self, keys) ==
    IF keys = <<>> THEN Ok(self)
    ELSE With(convert(self, Head(keys), "float"),
              LAMBDA r : IF r.st # "Ok" THEN r
                         ELSE int_fields_as_float(r.ev, Tail(keys)))

RECURSIVE int_fields(_, _)
int_fields(self, keys) ==
    IF keys = <<>> THEN Ok(self)
    ELSE With(convert(self, Head(keys), "int"),
              LAMBDA r : IF r.st # "Ok" THEN r
                         ELSE int_fields(r.ev, Tail(keys)))

RECURSIVE float_fields(_, _)
float_fields(self, keys) ==
    IF keys = <<>> THEN Ok(self)
    ELSE With(convert(self, Head(keys), "float"),
              LAMBDA r : IF r.st # "Ok" THEN r
                         ELSE float_fields(r.ev, Tail(keys)))

RECURSIVE str_fields(_, _)
str_fields(self, keys) ==
    IF keys = <<>> THEN Ok(self)
    ELSE With(convert(self, Head(keys), "str"),
              LAMBDA r : IF r.st # "Ok" THEN r
                         ELSE str_fields(r.ev, Tail(keys)))

RECURSIVE bool_fields(_, _)
bool_fields(self, keys) ==
    IF keys = <<>> THEN Ok(self)
    ELSE With(convert(self, Head(keys), "bool"),
              LAMBDA r : IF r.st # "Ok" THEN r
                         ELSE bool_fields(r.ev, Tail(keys)))

\* the methods of EventValidation that take a key list, by name
Ops == {"drop", "array", "int", "float", "str", "bool"}

Apply(op, self, keys) ==
    CASE op = "drop" -> drop_fields(self, keys)
      [] op = "array" -> array_fields(self, keys)
      [] op = "int" -> int_fields(self, keys)
      [] op = "float" -> float_fields(self, keys)
      [] op = "str" -> str_fields(self, keys)
      [] op = "bool" -> bool_fields(self, keys)

(***************************************************************************)
(* Endpoint, Validator                                                     *)
(***************************************************************************)
Endpoints ==
    {"ReferenceDataAccount", "ReferenceDataCard", "ReferenceDataCustomer",
     "ReferenceDataDevice", "CardAuthorization", "CardClearing",
     "TransferInitiation", "TransferSettlement"}

\* Endpoint::validator: the validator of the endpoint, "todo" where the
\* match arm is todo!(), which panics when it is evaluated
validator(e) ==
    IF e = "ReferenceDataAccount" THEN "ReferenceDataAccountValidator"
    ELSE "todo"

\* the drop list of the schema kept in the comment of validate, which also
\* names customer_id
DropKeys_with_customer_id == <<"customer_id", "key", "event_external_id">>

\* a str list that names a field int_fields has already converted
StrKeys_overlapping == <<"account_active", "account_open_date">>

DropKeys == <<"key", "event_external_id">>
ArrayKeys == <<"account_cards", "account_customers", "account_limits">>
IntKeys == <<"account_number_of_cards", "account_open_date">>
StrKeys == <<"account_active">>

\* r?.op(keys): op on the event of an Ok, r itself otherwise
Then(r, op, keys) == IF r.st = "Ok" THEN Apply(op, r.ev, keys) ELSE r

\* ReferenceDataAccountValidator::validate: the chain, each step behind a ?
ReferenceDataAccountValidator_validate(event) ==
    With(drop_fields(event, DropKeys), LAMBDA r1 :
    With(Then(r1, "array", ArrayKeys), LAMBDA r2 :
    With(Then(r2, "int", IntKeys), LAMBDA r3 :
        Then(r3, "str", StrKeys))))

\* EventValidation::validate: validator.validate(self)
validate(self, v) ==
    IF v = "ReferenceDataAccountValidator"
    THEN ReferenceDataAccountValidator_validate(self)
    ELSE Panic

(***************************************************************************)
(* main                                                                    *)
(***************************************************************************)
Min(a, b) == IF a < b THEN a ELSE b

\* headers.zip(record).collect::<Event>(): an object; of two pairs with the
\* same name the later one is kept
collect_event(hs, rec) ==
    LET n == Min(Len(hs), Len(rec))
        last(k) == CHOOSE i \in 1..n :
                      /\ hs[i] = k
                      /\ \A j \in 1..n : hs[j] = k => j <= i
    IN  ObjectV([k \in {hs[i] : i \in 1..n} |-> StringV(rec[last(k)])])

(***************************************************************************)
(* Bounds and the inputs drawn within them                                 *)
(***************************************************************************)
MaxRows == 2      \* records of the CSV file
MaxCols == 2      \* columns of the CSV file
MaxFields == 2    \* columns of the row one event is built from
MaxKeys == 2      \* length of the key list of an operator
MaxInt == 3       \* magnitude of the integers written as literals
MaxArrayLen == 2  \* elements of the arrays written as literals

\* the sequences over S of length lo..hi
Seqs(S, lo, hi) == UNION {[1..n -> S] : n \in lo..hi}

\* "7", "[1]", "abc"
S7 == <<"7">>
SArr1 == <<"[", "1", "]">>
SAbc == <<"a", "b", "c">>
STrue == <<"t", "r", "u", "e">>

\* the header names and the cells of the files main is run on
FileNames == {"key", "account_cards", "account_number_of_cards"}
FileCells == {S7, SArr1, SAbc}

\* what reader.records() yields for one record: the record, or a csv::Error
\* (a record whose length differs from the headers', an I/O error)
OkRecord(row) == [ok |-> TRUE, row |-> row]
ErrRecord == [ok |-> FALSE, row |-> <<>>]

RecordsOf(hs) == {OkRecord(row) : row \in [1..Len(hs) -> FileCells]} \cup {ErrRecord}

idleOp ==
    /\ input = NullV
    /\ keysA = <<>>
    /\ keysB = <<>>
    /\ opA = "none"
    /\ opB = "none"
    /\ phase = "idle"
    /\ res = Panic
    /\ res2 = Panic

idleRun ==
    /\ endpoint = "none"
    /\ pos = 0
    /\ events = <<>>
    /\ pc = "idle"
    /\ outcome = "idle"
    /\ reported = <<>>

(***************************************************************************)
(* main: the reader is opened and the headers read (Start); each turn of   *)
(* collect pulls one item through records(), map_ok and flatten_ok         *)
(* (ReadError, ProcessRecord); at the end of the records main returns      *)
(* Ok(()) (Finish).                                                        *)
(***************************************************************************)
Init ==
    /\ endpoint \in Endpoints
    /\ headers \in Seqs(FileNames, 1, MaxCols)
    /\ records \in Seqs(RecordsOf(headers), 0, MaxRows)
    /\ pos = 0
    /\ events = <<>>
    /\ pc = "start"
    /\ outcome = "running"
    /\ reported = <<>>
    /\ idleOp

\* csv::Reader::from_path(args.input)?, reader.headers()?.clone()
Start ==
    /\ pc = "start"
    /\ pc' = "loop"
    /\ UNCHANGED <<endpoint, headers, records, pos, events, outcome, reported>>
    /\ UNCHANGED opVars

\* records() yields Err(e): map_ok and flatten_ok pass it on, collect stops
\* and ? returns it from main; the events collected so far are dropped
ReadError ==
    /\ pc = "loop"
    /\ pos < Len(records)
    /\ ~records[pos + 1].ok
    /\ pos' = pos + 1
    /\ events' = <<>>
    /\ reported' = Append(reported, Report("csv::Error"))
    /\ outcome' = "err"
    /\ pc' = "done"
    /\ UNCHANGED <<endpoint, headers, records>>
    /\ UNCHANGED opVars

\* what the closure of map_ok returns for a record: the event is built, then
\* args.endpoint.validator() is evaluated, then validate is called
closure(hs, rec, e) ==
    With(collect_event(hs, rec), LAMBDA event : validate(event, validator(e)))

\* flatten_ok: an Ok(inner) item is replaced by the items of inner taken as
\* an iterator; Result::into_iter yields the value of an Ok and nothing for
\* an Err
flatten_ok(r) == IF r.st = "Ok" THEN <<r.ev>> ELSE <<>>

\* records() yields Ok(record)
ProcessRecord ==
    /\ pc = "loop"
    /\ pos < Len(records)
    /\ records[pos + 1].ok
    /\ \E r \in {closure(headers, records[pos + 1].row, endpoint)} :
       /\ pos' = pos + 1
       /\ events' = IF r.st = "Panic" THEN <<>> ELSE events \o flatten_ok(r)
       /\ outcome' = IF r.st = "Panic" THEN "panic" ELSE outcome
       /\ pc' = IF r.st = "Panic" THEN "done" ELSE pc
    /\ UNCHANGED <<endpoint, headers, records, reported>>
    /\ UNCHANGED opVars

\* records() is exhausted: collect returns Ok(events), main returns Ok(())
Finish ==
    /\ pc = "loop"
    /\ pos = Len(records)
    /\ outcome' = "ok"
    /\ pc' = "done"
    /\ UNCHANGED <<endpoint, headers, records, pos, events, reported>>
    /\ UNCHANGED opVars

Next == Start \/ ReadError \/ ProcessRecord \/ Finish

Spec == Init /\ [][Next]_vars

(***************************************************************************)
(* Claims about main                                                       *)
(***************************************************************************)

\* whether validating record k against the reference-data-account schema
\* fails with a coercion error
RowFails(k) ==
    /\ records[k].ok
    /\ ReferenceDataAccountValidator_validate(
           collect_event(headers, records[k].row)).st = "Err"

\* C1: a finished run over a batch in which the validation of some row fails
\* has aborted with exactly one reported error and no validated event
C1_FailFast ==
    (/\ pc = "done"
     /\ endpoint = "ReferenceDataAccount"
     /\ \E k \in 1..Len(records) : RowFails(k))
    => (outcome = "err" /\ Len(reported) = 1 /\ events = <<>>)

\* C2: a finished run with an endpoint other than reference-data-account has
\* failed with the unimplemented-schema condition before any record was read
C2_UnimplementedBeforeRows ==
    (pc = "done" /\ endpoint # "ReferenceDataAccount")
    => (outcome = "panic" /\ pos = 0)

\* C4: a run that completes successfully on N records has collected exactly N
\* events, the i-th the validation result of the i-th record
C4_OrderAndCount ==
    (pc = "done" /\ outcome = "ok")
    => /\ Len(events) = Len(records)
       /\ \A i \in 1..Len(records) :
            /\ records[i].ok
            /\ Ok(events[i]) = closure(headers, records[i].row, endpoint)

(***************************************************************************)
(* One event built from a header/row pair and validated with the           *)
(* reference-data-account schema: the body of the closure of map_ok, in    *)
(* two steps.                                                              *)
(***************************************************************************)
\* the field names of the schema, and one it does not name
RowNames ==
    {"key", "event_external_id", "account_cards", "account_customers",
     "account_limits", "account_number_of_cards", "account_open_date",
     "account_active", "customer_id"}

\* "7", "-12", "[1]", "abc", "true"
SNeg12 == <<"-", "1", "2">>
RowCells == {S7, SNeg12, SArr1, SAbc, STrue}

InitValidate ==
    /\ endpoint = "ReferenceDataAccount"
    /\ headers \in Seqs(RowNames, 0, MaxFields)
    /\ records \in {<<OkRecord(row)>> : row \in [1..Len(headers) -> RowCells]}
    /\ pos = 0
    /\ events = <<>>
    /\ pc = "idle"
    /\ outcome = "idle"
    /\ reported = <<>>
    /\ input = NullV
    /\ keysA = <<>>
    /\ keysB = <<>>
    /\ opA = "none"
    /\ opB = "none"
    /\ phase = "row"
    /\ res = Panic
    /\ res2 = Panic

\* headers.iter().zip(record.iter()).collect::<Event>()
BuildEvent ==
    /\ phase = "row"
    /\ input' = collect_event(headers, records[1].row)
    /\ phase' = "built"
    /\ UNCHANGED <<keysA, keysB, opA, opB, res, res2>>
    /\ UNCHANGED runVars

\* .validate(args.endpoint.validator())
ValidateEvent ==
    /\ phase = "built"
    /\ res' = validate(input, validator(endpoint))
    /\ phase' = "validated"
    /\ UNCHANGED <<input, keysA, keysB, opA, opB, res2>>
    /\ UNCHANGED runVars

NextValidate == BuildEvent \/ ValidateEvent

SpecValidate == InitValidate /\ [][NextValidate]_vars

C10_NoPanic == phase = "validated" => res.st # "Panic"

\* C10's case: a validation that went through array_fields and int_fields
\* and converted a field in each
C10_Witness ==
    /\ phase = "validated"
    /\ res.st = "Ok"
    /\ {"account_limits", "account_open_date"} \subseteq DOMAIN res.ev.o
    /\ res.ev.o["account_open_date"].t = "Int"

(***************************************************************************)
(* One coercion operator applied to one event, and applied again to its    *)
(* result.                                                                 *)
(***************************************************************************)
\* The literals the events hold are written from the values they denote, so
\* that what a parser returns can be compared with the value written.
DigitChars == <<"0", "1", "2", "3", "4", "5", "6", "7", "8", "9">>

\* the decimal digits of n >= 0
RECURSIVE Dec(_)
Dec(n) ==
    IF n < 10 THEN <<DigitChars[n + 1]>>
    ELSE Dec(n \div 10) \o <<DigitChars[(n % 10) + 1]>>

\* the ways the model writes the integer n
IntLiterals(n) ==
    IF n < 0 THEN {<<"-">> \o Dec(0 - n), <<"-", "0">> \o Dec(0 - n)}
    ELSE {Dec(n), <<"+">> \o Dec(n), <<"0">> \o Dec(n)}
         \cup (IF n = 0 THEN {<<"-", "0">>} ELSE {})

Ints == (0 - MaxInt)..MaxInt

\* the integers the literals are written from: of one and of two digits
WrittenInts == {4 * n : n \in Ints}

\* the arrays the literals are written from
Elements ==
    {IntV(-12), StringV(<<"a">>), ArrayV(<<NullV, BoolV(TRUE)>>),
     ObjectV([k \in {<<"k">>} |-> IntV(0)])}
Arrays == {ArrayV(a) : a \in Seqs(Elements, 0, MaxArrayLen)}

RECURSIVE Literal(_, _)
RECURSIVE JoinLiterals(_, _)

\* the JSON text of a value, sep between the tokens of an array
Literal(val, sep) ==
    CASE val.t = "Null" -> <<"n", "u", "l", "l">>
      [] val.t = "Bool" -> IF val.b THEN <<"t", "r", "u", "e">>
                           ELSE <<"f", "a", "l", "s", "e">>
      [] val.t = "Int" -> IF val.n < 0 THEN <<"-">> \o Dec(0 - val.n)
                          ELSE Dec(val.n)
      [] val.t = "String" -> <<"\"">> \o val.s \o <<"\"">>
      [] val.t = "Array" -> <<"[">> \o sep \o JoinLiterals(val.a, sep) \o <<"]">>
      [] val.t = "Object" ->
           \* an object of one member
           LET key == CHOOSE k \in DOMAIN val.o : TRUE IN
           <<"{">> \o sep \o <<"\"">> \o key \o <<"\"">> \o sep \o <<":">> \o sep
           \o Literal(val.o[key], sep) \o sep \o <<"}">>

JoinLiterals(vals, sep) ==
    IF vals = <<>> THEN <<>>
    ELSE IF Len(vals) = 1 THEN Literal(vals[1], sep) \o sep
    ELSE Literal(vals[1], sep) \o sep \o <<",">> \o sep
         \o JoinLiterals(Tail(vals), sep)

\* the ways the model writes an array: compact, and with whitespace
ArrayLiterals(val) == {Literal(val, <<>>), <<" ">> \o Literal(val, <<" ">>) \o <<"\n">>}

\* strings that are neither: "", "abc", "-", "12a", " 7", "[1", "[1,]",
\* "[]]", "[01]", "1.5", ".5", "1e2", "nan", "true", "false", "True"
OtherStrings ==
    {<<>>, SAbc, <<"-">>, <<"1", "2", "a">>, <<" ", "7">>,
     <<"[", "1">>, <<"[", "1", ",", "]">>, <<"[", "]", "]">>,
     <<"[", "0", "1", "]">>, <<"1", ".", "5">>, <<".", "5">>,
     <<"1", "e", "2">>, <<"n", "a", "n">>, STrue,
     <<"f", "a", "l", "s", "e">>, <<"T", "r", "u", "e">>}

OpStrings ==
    UNION {IntLiterals(n) : n \in WrittenInts}
    \cup UNION {ArrayLiterals(a) : a \in Arrays}
    \cup OtherStrings

\* what the field "field" of an event may hold: a string, or a value that is
\* not a string
FieldValues ==
    {StringV(str) : str \in OpStrings}
    \cup {IntV(7), BoolV(TRUE), NullV, ArrayV(<<IntV(1)>>)}

\* what the field "expected" may hold
ExpectedValues ==
    {StringV(S7), StringV(SArr1), StringV(SAbc), IntV(123),
     ArrayV(<<StringV(<<"o", "n", "e">>), StringV(<<"t", "w", "o">>)>>)}

\* the events: "field" and "expected", each present or not
OpEvents ==
    {ObjectV([k \in {} |-> NullV])}
    \cup {ObjectV([k \in {"field"} |-> f]) : f \in FieldValues}
    \cup {ObjectV([k \in {"expected"} |-> e]) : e \in ExpectedValues}
    \cup {ObjectV([k \in {"field", "expected"} |->
                      IF k = "field" THEN f ELSE e]) :
            f \in FieldValues, e \in ExpectedValues}

\* the names a key list may hold; no event has a field "missing"
KeyNames == {"field", "expected", "missing"}

InitOp ==
    /\ idleRun
    /\ headers = <<>>
    /\ records = <<>>
    /\ input \in OpEvents
    /\ opA \in Ops
    /\ keysA \in Seqs(KeyNames, 0, MaxKeys)
    /\ opB = "none"
    /\ keysB = <<>>
    /\ phase = "ready"
    /\ res = Panic
    /\ res2 = Panic

\* input.op(keys)
ApplyOp ==
    /\ phase = "ready"
    /\ opB = "none"
    /\ res' = Apply(opA, input, keysA)
    /\ phase' = "applied"
    /\ UNCHANGED <<input, keysA, keysB, opA, opB, res2>>
    /\ UNCHANGED runVars

\* input.op(keys)?.op(keys)
ApplyAgain ==
    /\ phase = "applied"
    /\ res.st = "Ok"
    /\ res2' = Apply(opA, res.ev, keysA)
    /\ phase' = "again"
    /\ UNCHANGED <<input, keysA, keysB, opA, opB, res>>
    /\ UNCHANGED runVars

NextOp == ApplyOp \/ ApplyAgain

SpecOp == InitOp /\ [][NextOp]_vars

(***************************************************************************)
(* Claims about one operator                                               *)
(***************************************************************************)
\* the listed fields the event has
Listed == Range(keysA) \cap DOMAIN input.o

\* the key list names no field twice
KeysOnce(keys) ==
    \A i, j \in 1..Len(keys) : keys[i] = keys[j] => i = j

\* a listed field that holds a string the operator cannot parse
Offending(k) ==
    /\ k \in Listed
    /\ input.o[k].t = "String"
    /\ ~call(opA, input.o[k].s).ok

\* C5: when a listed field holds a string that to-array, to-int, to-float or
\* to-bool cannot parse, the operator fails, and the error it reports carries
\* the name of an offending field
C5_ErrorNamesField ==
    (/\ opA \in {"array", "int", "float", "bool"}
     /\ phase = "applied"
     /\ KeysOnce(keysA)
     /\ \A k \in Listed : input.o[k].t = "String"
     /\ \E k \in Listed : Offending(k))
    => /\ res.st = "Err"
       /\ \E i \in 1..Len(res.err.context) : Offending(res.err.context[i].field)

\* a string written for an integer, and the integer
HoldsIntLiteral(val) ==
    val.t = "String" /\ \E n \in WrittenInts : val.s \in IntLiterals(n)
IntOf(val) == CHOOSE n \in WrittenInts : val.s \in IntLiterals(n)

\* a string that is not an optional sign followed by one or more digits
NonNumeric(str) ==
    LET body == IF str # <<>> /\ Head(str) \in {"+", "-"} THEN Tail(str)
                ELSE str
    IN  body = <<>> \/ \E i \in 1..Len(body) : body[i] \notin Digits

HoldsArrayLiteral(val) ==
    val.t = "String" /\ \E a \in Arrays : val.s \in ArrayLiterals(a)
ArrayOf(val) == CHOOSE a \in Arrays : val.s \in ArrayLiterals(a)

C8_Drop ==
    (opA = "drop" /\ phase \in {"applied", "again"})
    => /\ res.st = "Ok"
       /\ is_object(res.ev)
       /\ DOMAIN res.ev.o = DOMAIN input.o \ Range(keysA)
       /\ \A k \in DOMAIN res.ev.o : res.ev.o[k] = input.o[k]
       /\ (Listed = {} => res.ev = input)
       /\ (phase = "again" => res2.st = "Ok" /\ res2.ev = res.ev)

\* C8's case: a list with a present and an absent key, applied twice to an
\* event with a field it keeps
C8_Witness ==
    /\ opA = "drop"
    /\ phase = "again"
    /\ keysA = <<"missing", "field">>
    /\ DOMAIN input.o = {"field", "expected"}
    /\ DOMAIN res2.ev.o = {"expected"}

(***************************************************************************)
(* Two operators with key lists that share no name, applied to one event   *)
(* of strings in both orders.                                              *)
(***************************************************************************)
PairNames == {"field", "expected", "other"}

\* "7", "[1]", "true": each operator parses some of them and not the others
PairCells == {S7, SArr1, STrue}

\* the events of strings with at most MaxFields of the names
PairEvents ==
    {ObjectV(o) : o \in UNION {[D -> {StringV(c) : c \in PairCells}] :
                      D \in {D \in SUBSET PairNames : Cardinality(D) <= MaxFields}}}

\* the operators in a fixed order: a pair is drawn once, and applied both ways
OpOrder == <<"drop", "array", "int", "float", "str", "bool">>

InitPair ==
    /\ idleRun
    /\ headers = <<>>
    /\ records = <<>>
    /\ input \in PairEvents
    /\ \E a, b \in 1..Len(OpOrder) :
         /\ a <= b
         /\ opA = OpOrder[a]
         /\ opB = OpOrder[b]
    /\ keysA \in Seqs(PairNames, 0, MaxKeys)
    /\ keysB \in Seqs(PairNames, 0, MaxKeys)
    /\ Range(keysA) \cap Range(keysB) = {}
    /\ phase = "ready"
    /\ res = Panic
    /\ res2 = Panic

\* input.opA(keysA)?.opB(keysB)
ApplyAB ==
    /\ phase = "ready"
    /\ opB # "none"
    /\ \E r \in {Apply(opA, input, keysA)} :
         res' = IF r.st = "Ok" THEN Apply(opB, r.ev, keysB) ELSE r
    /\ phase' = "ab"
    /\ UNCHANGED <<input, keysA, keysB, opA, opB, res2>>
    /\ UNCHANGED runVars

\* input.opB(keysB)?.opA(keysA)
ApplyBA ==
    /\ phase = "ab"
    /\ \E r \in {Apply(opB, input, keysB)} :
         res2' = IF r.st = "Ok" THEN Apply(opA, r.ev, keysA) ELSE r
    /\ phase' = "both"
    /\ UNCHANGED <<input, keysA, keysB, opA, opB, res>>
    /\ UNCHANGED runVars

NextPair == ApplyAB \/ ApplyBA

SpecPair == InitPair /\ [][NextPair]_vars

\* C9: on an event of strings, two operators over key lists that share no
\* name fail in one order exactly when they fail in the other, and when both
\* orders succeed they yield the same event
C9_Commute ==
    phase = "both"
    => /\ (res.st = "Ok") <=> (res2.st = "Ok")
       /\ res.st = "Ok" => res.ev = res2.ev

\* C9's case: to-array and to-int both convert a field, and both orders
\* succeed
C9_Witness ==
    /\ phase = "both"
    /\ opA = "array"
    /\ opB = "int"
    /\ keysA = <<"field">>
    /\ keysB = <<"other", "expected">>
    /\ res.st = "Ok"
    /\ res2.st = "Ok"
    /\ DOMAIN res.ev.o = {"field", "other"}

====
